---------------------------- MODULE Spec2Model ----------------------------
(***************************************************************************)
(* Model of the four serverless request handlers of the medical chatbot:   *)
(*   WN  Wikipedia proxy, Netlify   (chat.js, exports.handler)             *)
(*   WV  Wikipedia proxy, Vercel    (chat.js, module.exports)              *)
(*   GV  Groq proxy, Vercel         (module.exports)                       *)
(*   GN  Groq proxy, Netlify        (exports.handler)                      *)
(* A JavaScript string is a sequence of one-character strings.  Every      *)
(* action is the code of one handler between two awaits.                   *)
(***************************************************************************)
EXTENDS Integers, Sequences, FiniteSets, TLC

(***************************************************************************)
(* Bounds of the model.                                                    *)
(***************************************************************************)
MaxGenericLen == 3
MaxExtractPieces == 2

(***************************************************************************)
(* Strings.                                                                *)
(***************************************************************************)
\* The characters of the model are the code points up to U+00FF.
\* A value different from every string: JavaScript's null / undefined.
Null == <<"<null>">>

Range(f) == {f[i] : i \in DOMAIN f}

UpperLetters == <<"A","B","C","D","E","F","G","H","I","J","K","L","M",
                  "N","O","P","Q","R","S","T","U","V","W","X","Y","Z">>
LowerLetters == <<"a","b","c","d","e","f","g","h","i","j","k","l","m",
                  "n","o","p","q","r","s","t","u","v","w","x","y","z">>
Digits == {"0","1","2","3","4","5","6","7","8","9"}
\* The letters up to U+00FF that toLowerCase changes, besides A-Z
UpperLatin1 == <<"À","Á","Â","Ã","Ä","Å","Æ","Ç","È","É","Ê","Ë","Ì","Í","Î",
                   "Ï","Ð","Ñ","Ò","Ó","Ô","Õ","Ö","Ø","Ù","Ú","Û","Ü","Ý","Þ">>
LowerLatin1 == <<"à","á","â","ã","ä","å","æ","ç","è","é","ê","ë","ì","í","î",
                   "ï","ð","ñ","ò","ó","ô","õ","ö","ø","ù","ú","û","ü","ý","þ">>

\* WhiteSpace and LineTerminator up to U+00FF: tab, line feed, vertical tab,
\* form feed, carriage return, space and no-break space.  trim(), \s and
\* Number() all use this set.
WhiteSpace == Range(<<" ","\t","\n","","\f","\r"," ">>)

IsSpace(c) == c \in WhiteSpace

\* \w of a JavaScript regular expression
IsWordChar(c) == c \in Range(UpperLetters) \cup Range(LowerLetters) \cup Digits \cup {"_"}

\* The character as a regular expression with the i flag and without the u
\* flag compares it: only A-Z and a-z are folded together
FoldChar(c) ==
    IF c \in Range(UpperLetters)
    THEN LowerLetters[CHOOSE i \in 1..26 : UpperLetters[i] = c]
    ELSE c

FoldCase(s) == [i \in 1..Len(s) |-> FoldChar(s[i])]

LowerChar(c) ==
    IF c \in Range(UpperLetters)
    THEN LowerLetters[CHOOSE i \in 1..26 : UpperLetters[i] = c]
    ELSE IF c \in Range(UpperLatin1)
    THEN LowerLatin1[CHOOSE i \in DOMAIN UpperLatin1 : UpperLatin1[i] = c]
    ELSE c

\* String.prototype.toLowerCase
ToLowerCase(s) == [i \in 1..Len(s) |-> LowerChar(s[i])]

Drop(s, n) == SubSeq(s, n + 1, Len(s))

RECURSIVE TrimStart(_)
TrimStart(s) == IF s # <<>> /\ IsSpace(s[1]) THEN TrimStart(Tail(s)) ELSE s

RECURSIVE TrimEnd(_)
TrimEnd(s) == IF s # <<>> /\ IsSpace(s[Len(s)]) THEN TrimEnd(SubSeq(s, 1, Len(s) - 1)) ELSE s

\* String.prototype.trim
Trim(s) == TrimEnd(TrimStart(s))

StartsWith(s, p) == Len(s) >= Len(p) /\ SubSeq(s, 1, Len(p)) = p

\* String.prototype.includes
Includes(s, sub) == \E i \in 1..(Len(s) + 1) : StartsWith(Drop(s, i - 1), sub)

\* String.prototype.split('\n')
RECURSIVE SplitLines(_)
SplitLines(s) ==
    IF \E i \in 1..Len(s) : s[i] = "\n"
    THEN LET i == CHOOSE j \in 1..Len(s) : s[j] = "\n" /\ \A k \in 1..(j - 1) : s[k] # "\n"
         IN  <<SubSeq(s, 1, i - 1)>> \o SplitLines(Drop(s, i))
    ELSE <<s>>

\* The truthiness of a JavaScript value that is a string, null or undefined
Truthy(v) == v # Null /\ v # <<>>

(***************************************************************************)
(* chat.js, Netlify variant: classifier and normaliser.                    *)
(***************************************************************************)
NON_MEDICAL_KEYWORDS ==
    << <<"q","u","e","e","n">>, <<"k","i","n","g">>, <<"p","r","e","s","i","d","e","n","t">>, <<"c","o","u","n","t","r","y">>, <<"c","i","t","y">>, <<"v","i","l","l","a","g","e">>,
       <<"n","o","v","e","l">>, <<"m","o","v","i","e">>, <<"s","o","n","g">>, <<"a","l","b","u","m">>, <<"h","i","s","t","o","r","y">>, <<"a","r","t">>,
       <<"p","o","l","i","t","i","c","s">>, <<"r","e","l","i","g","i","o","n">>, <<"w","e","a","t","h","e","r">>, <<"s","p","o","r","t","s">>, <<"c","e","l","e","b","r","i","t","y">>,
       <<"a","c","t","o","r">>, <<"a","c","t","r","e","s","s">>, <<"s","i","n","g","e","r">>, <<"a","r","t","i","s","t">>, <<"b","o","o","k">>, <<"c","a","r">>, <<"p","l","a","c","e">> >>

\* The alternatives of the regular expression of isGreeting, in order
GreetingOpeners ==
    << <<"h","i">>, <<"h","e","l","l","o">>, <<"h","e","y">>, <<"g","r","e","e","t","i","n","g","s">>, <<"h","a","l","l","o">>, <<"w","h","a","t","'","s"," ","u","p">>,
       <<"h","o","w"," ","a","r","e"," ","y","o","u">>, <<"h","o","w"," ","i","s"," ","i","t"," ","g","o","i","n","g">> >>

\* The alternatives of the regular expression of cleanMedicalPrompt, in order
FillerPhrases ==
    << <<"i"," ","h","a","v","e"," ","a">>, <<"i"," ","f","e","e","l">>, <<"w","h","a","t"," ","i","s">>, <<"t","e","l","l"," ","m","e"," ","a","b","o","u","t">>, <<"w","h","a","t"," ","a","r","e">>,
       <<"t","h","e"," ","b","e","n","e","f","i","t","s"," ","o","f">>, <<"i"," ","w","a","n","t"," ","t","o"," ","k","n","o","w"," ","a","b","o","u","t">> >>

\* \b after the first n characters of s
WordBoundaryAfter(s, n) ==
    LET before == n >= 1 /\ n <= Len(s) /\ IsWordChar(s[n])
        after  == n + 1 <= Len(s) /\ IsWordChar(s[n + 1])
    IN  before # after

\* A defective isGreeting that does not trim the prompt
isGreetingUntrimmed(prompt) ==
    LET t == ToLowerCase(prompt)
    IN  \E i \in 1..Len(GreetingOpeners) :
            /\ StartsWith(FoldCase(t), GreetingOpeners[i])
            /\ WordBoundaryAfter(t, Len(GreetingOpeners[i]))

\* /^(hi|hello|...)\b/i.test(prompt.trim().toLowerCase())
isGreeting(prompt) ==
    LET t == ToLowerCase(Trim(prompt))
    IN  \E i \in 1..Len(GreetingOpeners) :
            /\ StartsWith(FoldCase(t), GreetingOpeners[i])
            /\ WordBoundaryAfter(t, Len(GreetingOpeners[i]))

\* The alternatives of /^(...)\s+/i that match at the start of s
FillerMatches(s) ==
    {i \in 1..Len(FillerPhrases) :
        /\ StartsWith(FoldCase(s), FillerPhrases[i])
        /\ Len(s) > Len(FillerPhrases[i])
        /\ IsSpace(s[Len(FillerPhrases[i]) + 1])}

\* A defective normaliser that keeps stripping filler phrases (global replace)
RECURSIVE cleanMedicalPromptRepeated(_)
cleanMedicalPromptRepeated(prompt) ==
    LET cleaned == Trim(prompt)
        m == FillerMatches(cleaned)
    IN  IF m = {} THEN cleaned
        ELSE LET i == CHOOSE j \in m : \A k \in m : j <= k
             IN  cleanMedicalPromptRepeated(TrimStart(Drop(cleaned, Len(FillerPhrases[i]))))

cleanMedicalPrompt(prompt) ==
    LET cleaned == Trim(prompt)
        m == FillerMatches(cleaned)
    IN  IF m = {} THEN Trim(cleaned)
        ELSE LET i == CHOOSE j \in m : \A k \in m : j <= k
             IN  Trim(TrimStart(Drop(cleaned, Len(FillerPhrases[i]))))

(***************************************************************************)
(* Number(string), as isNaN applies it to its argument.                    *)
(***************************************************************************)
AllIn(s, S) == \A i \in 1..Len(s) : s[i] \in S

IsDigits(s) == s # <<>> /\ AllIn(s, Digits)

\* DecimalDigits [. DecimalDigits?] | . DecimalDigits
IsMantissa(s) ==
    \/ IsDigits(s)
    \/ \E d \in 1..Len(s) :
          /\ s[d] = "."
          /\ AllIn(SubSeq(s, 1, d - 1), Digits)
          /\ AllIn(Drop(s, d), Digits)
          /\ Len(s) > 1

IsSignedInteger(s) ==
    \/ IsDigits(s)
    \/ s # <<>> /\ s[1] \in {"+", "-"} /\ IsDigits(Tail(s))

IsUnsignedDecimal(s) ==
    \/ s = <<"I","n","f","i","n","i","t","y">>
    \/ IsMantissa(s)
    \/ \E e \in 1..Len(s) :
          /\ s[e] \in {"e", "E"}
          /\ IsMantissa(SubSeq(s, 1, e - 1))
          /\ IsSignedInteger(Drop(s, e))

IsStrDecimalLiteral(s) ==
    \/ IsUnsignedDecimal(s)
    \/ s # <<>> /\ s[1] \in {"+", "-"} /\ IsUnsignedDecimal(Tail(s))

IsNonDecimalLiteral(s) ==
    /\ Len(s) >= 3
    /\ s[1] = "0"
    /\ \/ s[2] \in {"x", "X"} /\ AllIn(Drop(s, 2), Digits \cup {"a","b","c","d","e","f","A","B","C","D","E","F"})
       \/ s[2] \in {"o", "O"} /\ AllIn(Drop(s, 2), {"0","1","2","3","4","5","6","7"})
       \/ s[2] \in {"b", "B"} /\ AllIn(Drop(s, 2), {"0","1"})

\* isNaN(s) for a string s: Number(s) is NaN
isNaN(s) ==
    LET t == Trim(s)
    IN  ~ (t = <<>> \/ IsStrDecimalLiteral(t) \/ IsNonDecimalLiteral(t))

\* A defective check that rejects the short and numeric terms
isLikelyNonMedicalRejectsShort(searchTerm) ==
    LET lowerTerm == ToLowerCase(searchTerm)
    IN  IF Len(lowerTerm) < 3 \/ ~ isNaN(lowerTerm)
        THEN TRUE
        ELSE \E i \in 1..Len(NON_MEDICAL_KEYWORDS) : Includes(lowerTerm, NON_MEDICAL_KEYWORDS[i])

\* A defective check that compares the whole term with the keywords
isLikelyNonMedicalExact(searchTerm) ==
    LET lowerTerm == ToLowerCase(searchTerm)
    IN  IF Len(lowerTerm) < 3 \/ ~ isNaN(lowerTerm)
        THEN FALSE
        ELSE \E i \in 1..Len(NON_MEDICAL_KEYWORDS) : lowerTerm = NON_MEDICAL_KEYWORDS[i]

isLikelyNonMedical(searchTerm) ==
    LET lowerTerm == ToLowerCase(searchTerm)
    IN  IF Len(lowerTerm) < 3 \/ ~ isNaN(lowerTerm)
        THEN FALSE
        ELSE \E i \in 1..Len(NON_MEDICAL_KEYWORDS) : Includes(lowerTerm, NON_MEDICAL_KEYWORDS[i])


(***************************************************************************)
(* encodeURIComponent, on the characters that occur in the model's titles. *)
(***************************************************************************)
UriUnreserved ==
    Range(UpperLetters) \cup Range(LowerLetters) \cup Digits
        \cup {"-", "_", ".", "!", "~", "*", "'", "(", ")"}

EncodeChar(c) ==
    IF c \in UriUnreserved THEN <<c>>
    ELSE CASE c = " "  -> <<"%","2","0">>
           [] c = ":"  -> <<"%","3","A">>
           [] c = "\n" -> <<"%","0","A">>
           [] c = "\t" -> <<"%","0","9">>
           [] c = "\r" -> <<"%","0","D">>
           [] c = "+"  -> <<"%","2","B">>

RECURSIVE encodeURIComponent(_)
encodeURIComponent(s) ==
    IF s = <<>> THEN <<>> ELSE EncodeChar(Head(s)) \o encodeURIComponent(Tail(s))

WikiArticlePrefix == <<"h","t","t","p","s",":","/","/","e","n",".","w","i","k","i","p","e","d","i","a",".","o","r","g","/","w","i","k","i","/">>

SourceUrl(t) == WikiArticlePrefix \o encodeURIComponent(t)

(***************************************************************************)
(* Requests and the behaviours of the remote services.                     *)
(***************************************************************************)
Handlers == {"WN", "WV", "GV", "GN"}

Methods == {"POST", "GET", "OPTIONS"}

\* What the platform hands over as the request body: absent, null, text
\* that is not JSON, or a JSON object.
BadBodies == {"undefined", "null", "malformed"}

Openers == { <<>>, <<"h","i">>, <<"H","e","l","l","o">>, <<"I"," ","h","a","v","e"," ","a">>, <<"w","h","a","t"," ","i","s">>, <<"T","e","l","l"," ","m","e"," ","a","b","o","u","t">> }

Separators == { <<>>, <<" ">> }

Words ==
    { <<>>, <<"f","l","u">>, <<"g","h"," ","f","e","v","e","r">>, <<"s","t","o","r","y">>, <<"k","i","n","g">>, <<"Q","u","e","e","n"," ","V","i","c","t","o","r","i","a">>, <<"h","e","a","r","t">>,
      <<"w","h","a","t"," ","i","s"," ","f","l","u">>, <<"1","2">>, <<"1","e","5">>, <<"-","1",".","5">>, <<"0","x","1","f">> }

GenericChars == {"a", "1", " "}

RECURSIVE StringsUpTo(_, _)
StringsUpTo(chars, n) ==
    IF n = 0 THEN {<<>>}
    ELSE LET shorter == StringsUpTo(chars, n - 1)
         IN  shorter \cup {Append(s, c) : s \in shorter, c \in chars}

ComposedPrompts == {o \o sep \o w : o \in Openers, sep \in Separators, w \in Words}

PaddedPrompts ==
    { <<"\f","\t">> \o o \o <<" "," ">> \o w \o <<"","\n">> : o \in Openers, w \in {<<"f","l","u">>, <<"k","i","n","g">>} }

\* The values of the prompt field: absent, or a string (the empty one included)
Prompts == {Null} \cup ComposedPrompts \cup PaddedPrompts \cup StringsUpTo(GenericChars, MaxGenericLen)

Requests ==
    {[method |-> "POST", body |-> "object", prompt |-> p] : p \in Prompts}
        \cup {[method |-> "POST", body |-> b, prompt |-> Null] : b \in BadBodies}
        \cup {[method |-> m, body |-> "undefined", prompt |-> Null] : m \in Methods \ {"POST"}}

Titles == { <<>>, <<"H","a","y"," ","f","e","v","e","r">>, <<"W","i","k","i","p","e","d","i","a">> }

Pending == [kind |-> "pending", text |-> <<>>]

\* A search call throws (network or JSON failure), returns a payload without
\* query.search[0].title, or returns a title.
SearchOutcomes ==
    {[kind |-> k, text |-> <<>>] : k \in {"throw", "none"}}
        \cup {[kind |-> "title", text |-> t] : t \in Titles}

DisambiguationMarker == <<"m","a","y"," ","r","e","f","e","r"," ","t","o",":">>

ExtractPieces == { <<"F","e","v","e","r"," ","i","s"," ","a"," ","s","y","m","p","t","o","m",".">>, <<"F","e","v","e","r"," ">> \o DisambiguationMarker, <<"\n">>, <<" ","\f">> }

RECURSIVE PiecesUpTo(_)
PiecesUpTo(n) ==
    IF n = 0 THEN {<<>>}
    ELSE LET shorter == PiecesUpTo(n - 1)
         IN  shorter \cup {s \o p : s \in shorter, p \in ExtractPieces}

Extracts == PiecesUpTo(MaxExtractPieces)

\* An extract call throws, returns a payload without query.pages, with no
\* page in query.pages, with a page that has no extract, or with an extract.
ExtractOutcomes ==
    {[kind |-> k, text |-> <<>>] : k \in {"throw", "noquery", "nopages", "noextract"}}
        \cup {[kind |-> "extract", text |-> e] : e \in Extracts}

GroqErrorStatuses == {401, 429}

\* A completion call throws, answers with a non-2xx status (its body JSON
\* with error.message, JSON without it, the JSON null, or not JSON), or
\* answers 2xx (with content, without content, or with a body that is not
\* JSON).
GroqOutcomes ==
    {[kind |-> k, status |-> 0, text |-> <<>>] : k \in {"throw"}}
        \cup {[kind |-> k, status |-> st, text |-> <<"b","a","d"," ","k","e","y">>] :
                k \in {"notok_json"}, st \in GroqErrorStatuses}
        \cup {[kind |-> k, status |-> st, text |-> <<>>] :
                k \in {"notok_nomsg", "notok_null", "notok_nojson"}, st \in GroqErrorStatuses}
        \cup {[kind |-> "ok_text", status |-> 200, text |-> <<"R","e","s","t",".">>]}
        \cup {[kind |-> k, status |-> 200, text |-> <<>>] : k \in {"ok_empty", "ok_nojson"}}

(***************************************************************************)
(* State.                                                                  *)
(***************************************************************************)
VARIABLES
    handler,      \* the handler that is invoked
    req,          \* the request
    pc,           \* where the invocation stands
    calls,        \* the remote calls of the invocation, with their results
    responses,    \* the responses the invocation has produced
    escaped,      \* an exception left the handler
    cleanedQuery, \* chat.js, exports.handler: const cleanedQuery
    title         \* chat.js: const title / let title

vars == <<handler, req, pc, calls, responses, escaped, cleanedQuery, title>>

Response(status, field, msg, args) ==
    [status |-> status, field |-> field, msg |-> msg, args |-> args]

Respond(status, field, msg, args) ==
    /\ responses' = Append(responses, Response(status, field, msg, args))
    /\ pc' = "done"

\* fetch(...) is issued; the handler waits for it at next
Issue(kind, arg, next) ==
    /\ calls' = Append(calls, [kind |-> kind, arg |-> arg, result |-> Pending])
    /\ pc' = next

\* the pending call has returned with outcome o
Returned(o) == [calls EXCEPT ![Len(calls)].result = o]

Init ==
    /\ handler \in Handlers
    /\ req \in Requests
    /\ pc = "start"
    /\ calls = <<>>
    /\ responses = <<>>
    /\ escaped = FALSE
    /\ cleanedQuery = Null
    /\ title = Null


(***************************************************************************)
(* chat.js, Netlify variant: searchWikipedia, fetchWikipediaSummary and    *)
(* exports.handler.                                                        *)
(***************************************************************************)
\* searchWikipedia: the title, or null; an exception is caught and gives null
searchWikipediaNetlify(o) ==
    IF o.kind = "title" /\ o.text # <<>> THEN o.text ELSE Null

\* extract.split('\n').filter(p => p.trim() !== '')[0]; undefined if none
FirstNonBlankLine(extract) ==
    LET lines == SelectSeq(SplitLines(extract), LAMBDA l : Trim(l) # <<>>)
    IN  IF lines = <<>> THEN Null ELSE lines[1]

\* cleanedExtract.replace(/\n/g, '<br>')
RECURSIVE ReplaceNewlines(_)
ReplaceNewlines(s) ==
    IF s = <<>> THEN <<>>
    ELSE (IF Head(s) = "\n" THEN <<"<","b","r",">">> ELSE <<Head(s)>>) \o ReplaceNewlines(Tail(s))

\* A defective fetchWikipediaSummary that renders a page without an extract
fetchWikipediaSummaryNetlifyAlways(t, o) ==
    IF o.kind = "extract" /\ o.text # <<>> /\ FirstNonBlankLine(o.text) # Null
    THEN <<t, ReplaceNewlines(FirstNonBlankLine(o.text)), SourceUrl(t)>>
    ELSE <<t, <<"u","n","d","e","f","i","n","e","d">>, SourceUrl(t)>>

\* fetchWikipediaSummary: null, or the three texts that htmlContent is made
\* of.  Object.keys(undefined) and undefined.replace throw inside the try.
fetchWikipediaSummaryNetlify(t, o) ==
    IF o.kind # "extract" \/ o.text = <<>> THEN Null
    ELSE LET cleanedExtract == FirstNonBlankLine(o.text)
         IN  IF cleanedExtract = Null THEN Null
             ELSE <<t, ReplaceNewlines(cleanedExtract), SourceUrl(t)>>

\* A defective test that compares the title as it is
IsNoTitleNetlifyExact(t) == ~ Truthy(t) \/ t = <<"w","i","k","i","p","e","d","i","a">>

\* The title sends the Netlify handler to its not-found message
IsNoTitleNetlify(t) == ~ Truthy(t) \/ ToLowerCase(t) = <<"w","i","k","i","p","e","d","i","a">>

WN_Begin ==
    /\ handler = "WN" /\ pc = "start"
    /\ UNCHANGED <<handler, req, escaped, title>>
    /\ IF req.method # "POST"
       THEN Respond(405, "message", "MethodNotAllowed", <<>>)
            /\ UNCHANGED <<calls, cleanedQuery>>
       ELSE IF req.body # "object"
       THEN \* JSON.parse or the destructuring throws inside the try
            Respond(500, "message", "InternalError", <<>>)
            /\ UNCHANGED <<calls, cleanedQuery>>
       ELSE IF ~ Truthy(req.prompt)
       THEN Respond(400, "message", "MissingPrompt", <<>>)
            /\ UNCHANGED <<calls, cleanedQuery>>
       ELSE IF isGreeting(req.prompt)
       THEN Respond(200, "text", "Greeting", <<>>)
            /\ UNCHANGED <<calls, cleanedQuery>>
       ELSE /\ cleanedQuery' = cleanMedicalPrompt(req.prompt)
            /\ IF isLikelyNonMedical(cleanedQuery')
               THEN Respond(200, "text", "OutOfScope", <<cleanedQuery'>>)
                    /\ UNCHANGED calls
               ELSE Issue("search", cleanedQuery', "WN_search")
                    /\ UNCHANGED responses

\* A defective not-found message that quotes the cleaned query
notFoundQuoteCleaned(prompt, query) == query

\* What the not-found message quotes: **"${prompt}"**
notFoundQuote(prompt, query) == prompt

\* generatedText of exports.handler, as it is put in the response
WNText(r) ==
    CASE r.msg = "Greeting" ->
           <<"H","e","l","l","o"," ","t","h","e","r","e","!"," ","I","'","m"," ","h","e","r","e"," ","t","o"," ","p","r","o","v","i","d","e"," ","W","i","k","i","p","e","d","i","a"," ","i","n","f","o","r","m","a","t","i","o","n"," ","o","n"," ","*","*","h","e","a","l","t","h"," ","a","n","d"," ","m","e","d","i","c","a","l"," ","t","o","p","i","c","s","*","*"," ","o","n","l","y","."," ","H","o","w"," ","c","a","n"," ","I"," ","h","e","l","p"," ","y","o","u"," ","f","i","n","d"," ","a"," ","m","e","d","i","c","a","l"," ","f","a","c","t"," ","t","o","d","a","y","?">>
      [] r.msg = "OutOfScope" ->
           <<"I"," ","a","p","o","l","o","g","i","z","e",","," ","b","u","t"," ","m","y"," ","f","u","n","c","t","i","o","n"," ","i","s"," ","s","t","r","i","c","t","l","y"," ","l","i","m","i","t","e","d"," ","t","o"," ","*","*","h","e","a","l","t","h"," ","a","n","d"," ","m","e","d","i","c","a","l"," ","t","o","p","i","c","s","*","*","."," ","I"," ","c","a","n","n","o","t"," ","s","e","a","r","c","h"," ","f","o","r"," ","i","n","f","o","r","m","a","t","i","o","n"," ","a","b","o","u","t"," ","\"">>
             \o r.args[1]
             \o <<"\"","."," ","P","l","e","a","s","e"," ","t","r","y"," ","a"," ","h","e","a","l","t","h","-","r","e","l","a","t","e","d"," ","q","u","e","s","t","i","o","n"," ","i","n","s","t","e","a","d",".">>
      [] r.msg = "NotFound" ->
           <<"D","i","s","c","l","a","i","m","e","r",":"," ","I"," ","a","m"," ","a"," ","f","a","c","t","-","f","i","n","d","i","n","g"," ","a","s","s","i","s","t","a","n","t","."," ","I"," ","c","o","u","l","d"," ","n","o","t"," ","f","i","n","d"," ","a"," ","r","e","l","e","v","a","n","t"," ","W","i","k","i","p","e","d","i","a"," ","a","r","t","i","c","l","e"," ","f","o","r"," ","*","*","\"">>
             \o r.args[1]
             \o <<"\"","*","*","."," ","P","l","e","a","s","e"," ","t","r","y"," ","a"," ","m","o","r","e"," ","s","p","e","c","i","f","i","c"," ","h","e","a","l","t","h"," ","t","e","r","m",".">>
      [] r.msg = "ExtractFailed" ->
           <<"D","i","s","c","l","a","i","m","e","r",":"," ","I"," ","a","m"," ","a"," ","f","a","c","t","-","f","i","n","d","i","n","g"," ","a","s","s","i","s","t","a","n","t","."," ","F","o","u","n","d"," ","a","r","t","i","c","l","e"," ","\"">>
             \o r.args[1]
             \o <<"\""," ","b","u","t"," ","c","o","u","l","d"," ","n","o","t"," ","e","x","t","r","a","c","t"," ","a"," ","s","u","m","m","a","r","y",".">>
      [] r.msg = "Summary" ->
           <<"D","i","s","c","l","a","i","m","e","r",":"," ","I"," ","a","m"," ","a"," ","f","a","c","t","-","f","i","n","d","i","n","g"," ","a","s","s","i","s","t","a","n","t",","," ","n","o","t"," ","a"," ","d","o","c","t","o","r","."," ">>
             \o <<"<","p"," ","c","l","a","s","s","=","\"","f","o","n","t","-","b","o","l","d"," ","t","e","x","t","-","s","m","\"",">","W","i","k","i","p","e","d","i","a"," ","R","e","s","u","l","t"," ","f","o","r"," ","\"">>
             \o r.args[1]
             \o <<"\"","<","/","p",">","<","p"," ","c","l","a","s","s","=","\"","m","t","-","2","\"",">">>
             \o r.args[2]
             \o <<"<","/","p",">","<","p"," ","c","l","a","s","s","=","\"","m","t","-","3"," ","t","e","x","t","-","x","s"," ","i","t","a","l","i","c"," ","t","e","x","t","-","b","l","u","e","-","7","0","0","\"",">","S","o","u","r","c","e",":"," ","<","a"," ","h","r","e","f","=","\"">>
             \o r.args[3]
             \o <<"\""," ","t","a","r","g","e","t","=","\"","_","b","l","a","n","k","\""," ","c","l","a","s","s","=","\"","u","n","d","e","r","l","i","n","e"," ","h","o","v","e","r",":","t","e","x","t","-","b","l","u","e","-","9","0","0","\"",">","R","e","a","d"," ","t","h","e"," ","f","u","l","l"," ","a","r","t","i","c","l","e"," ","o","n"," ","W","i","k","i","p","e","d","i","a","<","/","a",">","<","/","p",">">>

WN_SearchReturn ==
    /\ handler = "WN" /\ pc = "WN_search"
    /\ UNCHANGED <<handler, req, escaped, cleanedQuery>>
    /\ \E o \in SearchOutcomes :
          /\ title' = searchWikipediaNetlify(o)
          /\ IF IsNoTitleNetlify(title')
             THEN /\ calls' = Returned(o)
                  /\ Respond(200, "text", "NotFound", <<notFoundQuote(req.prompt, cleanedQuery)>>)
             ELSE /\ calls' = Append(Returned(o),
                                     [kind |-> "extract", arg |-> title', result |-> Pending])
                  /\ pc' = "WN_extract"
                  /\ UNCHANGED responses

WN_ExtractReturn ==
    /\ handler = "WN" /\ pc = "WN_extract"
    /\ UNCHANGED <<handler, req, escaped, cleanedQuery, title>>
    /\ \E o \in ExtractOutcomes :
          LET summaryHtml == fetchWikipediaSummaryNetlify(title, o)
          IN  /\ calls' = Returned(o)
              /\ IF summaryHtml # Null
                 THEN Respond(200, "text", "Summary", summaryHtml)
                 ELSE Respond(200, "text", "ExtractFailed", <<title>>)

(***************************************************************************)
(* chat.js, Vercel variant: searchWikipedia, fetchWikipediaSummary and     *)
(* module.exports.                                                         *)
(***************************************************************************)
AugmentSuffix == <<" ","m","e","d","i","c","a","l"," ","c","o","n","d","i","t","i","o","n"," ","O","R"," ","h","u","m","a","n"," ","d","i","s","e","a","s","e">>

DisambiguationNotice == <<"T","h","e"," ","t","o","p","i","c"," ","i","s"," ","a","m","b","i","g","u","o","u","s",","," ","b","u","t"," ","h","e","r","e"," ","i","s"," ","t","h","e"," ","p","r","i","m","a","r","y"," ","m","e","d","i","c","a","l"," ","s","u","m","m","a","r","y",":">>

\* extract.split('\n')[0]
FirstLine(extract) == SplitLines(extract)[1]

\* A defective summary without the disambiguation test
SummaryVercelUnchecked(extract) == FirstLine(extract)

\* cleanedExtract after the disambiguation test
SummaryVercel(extract) ==
    LET cleanedExtract == FirstLine(extract)
    IN  IF Includes(cleanedExtract, DisambiguationMarker)
        THEN DisambiguationNotice
        ELSE cleanedExtract

\* A defective searchWikipedia whose catch returns null instead of throwing
searchWikipediaVercelSwallow(o) ==
    [threw |-> FALSE,
     title |-> IF o.kind = "title" /\ o.text # <<>> THEN o.text ELSE Null]

\* searchWikipedia: the title or null, or the Error thrown from its catch
searchWikipediaVercel(o) ==
    [threw |-> o.kind = "throw",
     title |-> IF o.kind = "title" /\ o.text # <<>> THEN o.text ELSE Null]

\* A defective fallback term that leaves the qualifier out
augmentedTopicPlain(topic) == topic

\* const augmentedTopic = `${topic} medical condition OR human disease`
augmentedTopic(topic) == topic \o AugmentSuffix

\* The handler's answer to { error: ... } from fetchWikipediaSummary
WV_Error(msg) == Respond(200, "error", msg, <<>>)

WV_Begin ==
    /\ handler = "WV" /\ pc = "start"
    /\ UNCHANGED <<handler, req, escaped, cleanedQuery, title>>
    /\ IF req.method = "OPTIONS"
       THEN Respond(200, "none", "End", <<>>) /\ UNCHANGED calls
       ELSE IF req.method # "POST"
       THEN Respond(405, "message", "MethodNotAllowed", <<>>) /\ UNCHANGED calls
       ELSE IF req.body # "object"
       THEN \* reading prompt off req.body throws inside the try
            Respond(500, "message", "InternalError", <<>>) /\ UNCHANGED calls
       ELSE IF ~ Truthy(req.prompt)
       THEN Respond(400, "message", "MissingPrompt", <<>>) /\ UNCHANGED calls
       ELSE Issue("search", req.prompt, "WV_primary") /\ UNCHANGED responses

WV_PrimaryReturn ==
    /\ handler = "WV" /\ pc = "WV_primary"
    /\ UNCHANGED <<handler, req, escaped, cleanedQuery>>
    /\ \E o \in SearchOutcomes :
          IF searchWikipediaVercel(o).threw
          THEN /\ calls' = Returned(o)
               /\ WV_Error("SearchFailed")
               /\ UNCHANGED title
          ELSE /\ title' = searchWikipediaVercel(o).title
               /\ UNCHANGED responses
               /\ IF ~ Truthy(title')
                  THEN /\ calls' = Append(Returned(o),
                                          [kind |-> "search", arg |-> augmentedTopic(req.prompt),
                                           result |-> Pending])
                       /\ pc' = "WV_fallback"
                  ELSE /\ calls' = Append(Returned(o),
                                          [kind |-> "extract", arg |-> title', result |-> Pending])
                       /\ pc' = "WV_extract"

WV_FallbackReturn ==
    /\ handler = "WV" /\ pc = "WV_fallback"
    /\ UNCHANGED <<handler, req, escaped, cleanedQuery>>
    /\ \E o \in SearchOutcomes :
          IF searchWikipediaVercel(o).threw
          THEN /\ calls' = Returned(o)
               /\ WV_Error("SearchFailed")
               /\ UNCHANGED title
          ELSE /\ title' = searchWikipediaVercel(o).title
               /\ IF ~ Truthy(title')
                  THEN /\ calls' = Returned(o)
                       /\ WV_Error("NotFound")
                  ELSE /\ calls' = Append(Returned(o),
                                          [kind |-> "extract", arg |-> title', result |-> Pending])
                       /\ pc' = "WV_extract"
                       /\ UNCHANGED responses

WV_ExtractReturn ==
    /\ handler = "WV" /\ pc = "WV_extract"
    /\ UNCHANGED <<handler, req, escaped, cleanedQuery, title>>
    /\ \E o \in ExtractOutcomes :
          /\ calls' = Returned(o)
          /\ IF o.kind = "throw"
             THEN WV_Error("ExtractionNetworkFailed")
             ELSE IF o.kind = "noquery"
             THEN \* Object.keys(undefined) throws; module.exports catches it
                  Respond(500, "message", "InternalError", <<>>)
             ELSE IF o.kind # "extract" \/ o.text = <<>>
             THEN WV_Error("ExtractFailed")
             ELSE Respond(200, "result", "Summary",
                          <<title, SummaryVercel(o.text), SourceUrl(title)>>)


(***************************************************************************)
(* Groq proxy, Vercel variant: module.exports.                             *)
(***************************************************************************)
GV_Begin ==
    /\ handler = "GV" /\ pc = "start"
    /\ UNCHANGED <<handler, req, cleanedQuery, title>>
    /\ IF req.method = "OPTIONS"
       THEN Respond(200, "none", "End", <<>>) /\ UNCHANGED <<calls, escaped>>
       ELSE IF req.method # "POST"
       THEN Respond(405, "message", "MethodNotAllowed", <<>>) /\ UNCHANGED <<calls, escaped>>
       ELSE IF req.body # "object"
       THEN \* const { prompt, systemInstruction } = req.body throws outside any try
            /\ escaped' = TRUE
            /\ pc' = "done"
            /\ UNCHANGED <<calls, responses>>
       ELSE IF ~ Truthy(req.prompt)
       THEN Respond(400, "message", "MissingPrompt", <<>>) /\ UNCHANGED <<calls, escaped>>
       ELSE Issue("completion", req.prompt, "GV_fetch") /\ UNCHANGED <<responses, escaped>>

GV_FetchReturn ==
    /\ handler = "GV" /\ pc = "GV_fetch"
    /\ UNCHANGED <<handler, req, escaped, cleanedQuery, title>>
    /\ \E o \in GroqOutcomes :
          /\ calls' = Returned(o)
          /\ IF o.kind \in {"throw", "notok_nojson", "ok_nojson"}
             THEN \* fetch or apiResponse.json() throws inside the try
                  Respond(500, "message", "InternalError", <<>>)
             ELSE IF o.kind \in {"notok_json", "notok_nomsg", "notok_null"}
             THEN Respond(o.status, "message", "GroqApiError", <<o.text>>)
             ELSE IF o.kind = "ok_text"
             THEN Respond(200, "text", "Completion", <<o.text>>)
             ELSE Respond(500, "message", "EmptyCompletion", <<>>)

(***************************************************************************)
(* Groq proxy, Netlify variant: exports.handler.                           *)
(***************************************************************************)
\* const API_KEY = "gsk_..." is a non-empty literal
ApiKeyIsSet == TRUE

GN_Begin ==
    /\ handler = "GN" /\ pc = "start"
    /\ UNCHANGED <<handler, req, cleanedQuery, title>>
    /\ IF req.method = "OPTIONS"
       THEN Respond(200, "none", "End", <<>>) /\ UNCHANGED <<calls, escaped>>
       ELSE IF req.method # "POST"
       THEN Respond(405, "message", "MethodNotAllowed", <<>>) /\ UNCHANGED <<calls, escaped>>
       ELSE IF ~ ApiKeyIsSet
       THEN Respond(500, "message", "MissingApiKey", <<>>) /\ UNCHANGED <<calls, escaped>>
       ELSE IF req.body \in {"undefined", "malformed"}
       THEN \* JSON.parse throws inside its own try
            Respond(400, "message", "InvalidJson", <<>>) /\ UNCHANGED <<calls, escaped>>
       ELSE IF req.body = "null"
       THEN \* JSON.parse gives null; destructuring it throws outside any try
            /\ escaped' = TRUE
            /\ pc' = "done"
            /\ UNCHANGED <<calls, responses>>
       ELSE IF ~ Truthy(req.prompt)
       THEN Respond(400, "message", "MissingPrompt", <<>>) /\ UNCHANGED <<calls, escaped>>
       ELSE Issue("completion", req.prompt, "GN_fetch") /\ UNCHANGED <<responses, escaped>>

GN_FetchReturn ==
    /\ handler = "GN" /\ pc = "GN_fetch"
    /\ UNCHANGED <<handler, req, escaped, cleanedQuery, title>>
    /\ \E o \in GroqOutcomes :
          /\ calls' = Returned(o)
          /\ IF o.kind \in {"throw", "notok_null", "ok_nojson"}
             THEN \* fetch, errorBody.error on null, or apiResponse.json() throws inside the try
                  Respond(500, "message", "InternalError", <<>>)
             ELSE IF o.kind = "notok_json"
             THEN Respond(o.status, "message", "GroqApiError", <<o.text>>)
             ELSE IF o.kind \in {"notok_nomsg", "notok_nojson"}
             THEN \* .catch(() => ({})) and the `Groq returned status N.` detail
                  Respond(o.status, "message", "GroqApiError", <<>>)
             ELSE IF o.kind = "ok_text"
             THEN Respond(200, "text", "Completion", <<o.text>>)
             ELSE Respond(500, "message", "EmptyCompletion", <<>>)

(***************************************************************************)
(* Specification.                                                          *)
(***************************************************************************)
Next ==
    \/ WN_Begin
    \/ WN_SearchReturn
    \/ WN_ExtractReturn
    \/ WV_Begin
    \/ WV_PrimaryReturn
    \/ WV_FallbackReturn
    \/ WV_ExtractReturn
    \/ GV_Begin
    \/ GV_FetchReturn
    \/ GN_Begin
    \/ GN_FetchReturn

Spec == Init /\ [][Next]_vars

TypeOK ==
    /\ handler \in Handlers
    /\ req \in Requests
    /\ pc \in {"start", "WN_search", "WN_extract", "WV_primary", "WV_fallback", "WV_extract",
               "GV_fetch", "GN_fetch", "done"}
    /\ escaped \in BOOLEAN
    /\ Len(responses) <= 1
    /\ Len(calls) <= 3


(***************************************************************************)
(* Properties.                                                             *)
(***************************************************************************)
IsWikipediaHandler == handler \in {"WN", "WV"}

Done == pc = "done"

SearchCalls == SelectSeq(calls, LAMBDA c : c.kind = "search")

\* The search came back without a title
NoTitleReturned(r) == r.kind = "none" \/ (r.kind = "title" /\ r.text = <<>>)

Threw(i) == calls[i].result.kind = "throw"

Reported(m) == Len(responses) = 1 /\ responses[1].msg = m

LastCall == calls[Len(calls)]

\* The last remote call was the extract fetch and it delivered a non-empty extract
ExtractObtained ==
    /\ calls # <<>>
    /\ LastCall.kind = "extract"
    /\ LastCall.result.kind = "extract"
    /\ LastCall.result.text # <<>>

\* The response carries title, summary and source URL
SuccessShaped(r) == r.msg = "Summary" /\ Len(r.args) = 3

\* C1, as claimed: in both Wikipedia handlers a primary search without a
\* title is followed by one fallback search with the augmented term, and
\* NotFound is never reported after a single search.
C1_FallbackInEveryHandler ==
    IsWikipediaHandler =>
        /\ (calls # <<>> /\ NoTitleReturned(calls[1].result)) =>
               /\ Len(calls) >= 2
               /\ calls[2].kind = "search"
               /\ calls[2].arg = calls[1].arg \o AugmentSuffix
        /\ Reported("NotFound") => Len(SearchCalls) = 2

\* C1, amended: in the Vercel handler a primary search without a title is
\* followed by exactly one fallback search with "<prompt> medical condition
\* OR human disease", and NotFound is reported only after both searches came
\* back without a title; the Netlify handler has no fallback and reports its
\* not-found message after its single search with the cleaned query.
C1_FallbackOnceInVercel ==
    /\ (handler = "WV" /\ calls # <<>> /\ NoTitleReturned(calls[1].result)) =>
           /\ Len(calls) >= 2
           /\ calls[2].kind = "search"
           /\ calls[2].arg = req.prompt \o AugmentSuffix
           /\ Len(SearchCalls) = 2
    /\ (handler = "WV" /\ Reported("NotFound")) =>
           /\ Len(SearchCalls) = 2
           /\ Len(calls) = 2
           /\ NoTitleReturned(calls[1].result)
           /\ NoTitleReturned(calls[2].result)
    /\ (handler = "WN" /\ Reported("NotFound")) =>
           /\ Len(calls) = 1
           /\ calls[1].kind = "search"
           /\ calls[1].arg = cleanedQuery

C1_Witness ==
    /\ handler = "WV"
    /\ Reported("NotFound")
    /\ Len(SearchCalls) = 2
    /\ calls[2].arg = req.prompt \o AugmentSuffix

\* C2, as claimed: in both Wikipedia handlers an exception of a remote call
\* ends the request at once with an outcome other than NOT_FOUND and
\* EXTRACT_FAIL.
C2_ExceptionIsRemoteError ==
    IsWikipediaHandler =>
        \A i \in 1..Len(calls) :
            Threw(i) =>
                /\ i = Len(calls)
                /\ Done
                /\ Len(responses) = 1
                /\ responses[1].msg \notin {"NotFound", "ExtractFailed"}

\* C2, amended: in both Wikipedia handlers an exception of a remote call
\* ends the request with no further remote call; the Vercel handler reports
\* it with its own error text (search failed / extraction failed due to
\* network issue), the Netlify handler swallows it and reports the not-found
\* message for a search and the could-not-extract message for an extract
\* fetch.
C2_ExceptionEndsRequest ==
    IsWikipediaHandler =>
        \A i \in 1..Len(calls) :
            Threw(i) =>
                /\ i = Len(calls)
                /\ Done
                /\ Len(responses) = 1
                /\ handler = "WV" =>
                       responses[1] =
                           Response(200, "error",
                                    IF calls[i].kind = "search" THEN "SearchFailed"
                                    ELSE "ExtractionNetworkFailed", <<>>)
                /\ handler = "WN" =>
                       /\ responses[1].status = 200
                       /\ responses[1].msg =
                              IF calls[i].kind = "search" THEN "NotFound" ELSE "ExtractFailed"

C2_Witness ==
    /\ handler = "WV"
    /\ Len(calls) = 2
    /\ calls[2].kind = "search"
    /\ Threw(2)
    /\ Reported("SearchFailed")

\* C3: a POST request to a Wikipedia handler that has ended has exactly one
\* response and no exception has left the handler; the response carries
\* title, summary and source URL only if a title and a non-empty extract
\* were obtained, and every other response is a message.
C3_SuccessOnlyWithTitleAndExtract ==
    (IsWikipediaHandler /\ req.method = "POST" /\ Done) =>
        /\ ~ escaped
        /\ Len(responses) = 1
        /\ IF SuccessShaped(responses[1])
           THEN /\ Truthy(title)
                /\ ExtractObtained
                /\ LastCall.arg = title
                /\ responses[1].args[1] = title
                /\ responses[1].args[3] = WikiArticlePrefix \o encodeURIComponent(title)
                /\ responses[1].status = 200
           ELSE /\ responses[1].field \in {"text", "error", "message"}
                /\ responses[1].msg # "Summary"

C3_Witness ==
    /\ handler = "WN"
    /\ Done
    /\ ExtractObtained
    /\ Len(responses) = 1
    /\ SuccessShaped(responses[1])


\* The request is a POST whose body is an object with a non-empty prompt
HasPrompt == req.method = "POST" /\ req.body = "object" /\ Truthy(req.prompt)

\* p, trimmed and lower-cased, starts with a greeting opener
StartsWithOpener(p) ==
    \E i \in 1..Len(GreetingOpeners) : StartsWith(ToLowerCase(Trim(p)), GreetingOpeners[i])

\* ... and the opener is followed by the end of p or by a character that is
\* not a letter, a digit or an underscore
OpenerAtWordBoundary(p) ==
    LET t == ToLowerCase(Trim(p))
    IN  \E i \in 1..Len(GreetingOpeners) :
            LET n == Len(GreetingOpeners[i])
            IN  /\ StartsWith(t, GreetingOpeners[i])
                /\ (Len(t) = n \/ ~ IsWordChar(t[n + 1]))

GreetingResponse == Response(200, "text", "Greeting", <<>>)

\* C4, as claimed: a prompt that starts with a greeting opener gets the
\* greeting message from the Netlify Wikipedia handler, and no remote call.
C4_GreetingByPrefix ==
    (handler = "WN" /\ HasPrompt /\ StartsWithOpener(req.prompt)) =>
        /\ calls = <<>>
        /\ Done => responses = <<GreetingResponse>>

\* C4, amended: a prompt that, trimmed and compared case-insensitively,
\* starts with a greeting opener that ends at a word boundary (the opener is
\* followed by the end of the prompt or by a character that is not an ASCII
\* letter, digit or underscore) gets the greeting message from the Netlify Wikipedia
\* handler, and no remote call.
C4_GreetingAtWordBoundary ==
    (handler = "WN" /\ HasPrompt /\ OpenerAtWordBoundary(req.prompt)) =>
        /\ calls = <<>>
        /\ pc \in {"start", "done"}
        /\ Done => responses = <<GreetingResponse>>

C4_Witness ==
    /\ handler = "WN"
    /\ HasPrompt
    /\ req.prompt # Trim(req.prompt)
    /\ Done
    /\ responses = <<GreetingResponse>>
    /\ calls = <<>>

ContainsKeyword(t) ==
    \E i \in 1..Len(NON_MEDICAL_KEYWORDS) : Includes(ToLowerCase(t), NON_MEDICAL_KEYWORDS[i])

\* Digits, with at most a sign and a decimal point among them
PurelyNumeric(s) ==
    /\ AllIn(s, Digits \cup {"+", "-", "."})
    /\ \E i \in 1..Len(s) : s[i] \in Digits

\* The normalised term is one the keyword list rejects
RejectedTerm(t) == Len(t) >= 3 /\ ~ PurelyNumeric(t) /\ ContainsKeyword(t)

\* C5, as claimed: a prompt whose normalised term has three characters or
\* more, is not numeric and contains a non-medical keyword gets the
\* out-of-scope message, and no search call.
C5_KeywordRejects ==
    (handler = "WN" /\ HasPrompt /\ RejectedTerm(cleanMedicalPrompt(req.prompt))) =>
        /\ calls = <<>>
        /\ Done => responses =
               <<Response(200, "text", "OutOfScope", <<cleanMedicalPrompt(req.prompt)>>)>>

\* C5, amended: the same for every prompt that is not a greeting; a greeting
\* whose normalised term contains a keyword gets the greeting message.
C5_KeywordRejectsNonGreeting ==
    (handler = "WN" /\ HasPrompt /\ RejectedTerm(cleanMedicalPrompt(req.prompt))) =>
        /\ calls = <<>>
        /\ pc \in {"start", "done"}
        /\ Done => responses =
               IF OpenerAtWordBoundary(req.prompt)
               THEN <<GreetingResponse>>
               ELSE <<Response(200, "text", "OutOfScope", <<cleanMedicalPrompt(req.prompt)>>)>>

C5_Witness ==
    /\ handler = "WN"
    /\ HasPrompt
    /\ Done
    /\ Reported("OutOfScope")
    /\ cleanedQuery # Trim(req.prompt)
    /\ calls = <<>>

\* The term went to the search stage
WentToSearch(t) ==
    /\ calls # <<>>
    /\ calls[1].kind = "search"
    /\ calls[1].arg = t
    /\ ~ Reported("OutOfScope")

\* Terms shorter than three characters and numeric terms pass the keyword check
C6_ShortOrNumericPasses ==
    (handler = "WN" /\ cleanedQuery # Null
        /\ (Len(cleanedQuery) < 3 \/ PurelyNumeric(cleanedQuery))) =>
            /\ ~ isLikelyNonMedical(cleanedQuery)
            /\ WentToSearch(cleanedQuery)

\* The term is one that the check's isNaN test takes for a number
TreatedAsNumeric(t) == Len(t) >= 3 /\ ~ isNaN(ToLowerCase(t))

\* Digits with sign, decimal point and exponent, or a 0x, 0o or 0b literal
NumericLiteralShape(s) ==
    /\ \E i \in 1..Len(s) : s[i] \in Digits
    /\ \/ AllIn(s, Digits \cup {"+", "-", ".", "e", "E"})
       \/ /\ Len(s) >= 3
          /\ s[1] = "0"
          /\ s[2] \in {"x", "X", "o", "O", "b", "B"}
          /\ AllIn(Drop(s, 2), Digits \cup {"a","b","c","d","e","f","A","B","C","D","E","F"})

\* C6, as claimed: terms shorter than three characters and purely numeric
\* terms pass the keyword check and go to the search stage, and the check
\* takes a term for a number only if it is purely numeric.
C6_NumericOnlyIfPurelyNumeric ==
    /\ C6_ShortOrNumericPasses
    /\ (handler = "WN" /\ cleanedQuery # Null /\ TreatedAsNumeric(cleanedQuery)) =>
           PurelyNumeric(cleanedQuery)

\* C6, amended: terms shorter than three characters and purely numeric terms
\* pass the keyword check and go to the search stage; the check takes a term
\* for a number whenever JavaScript converts it to a number, which holds for
\* digit-only terms and also for exponent and 0x/0o/0b literals such as
\* "1e5" and "0x1f", and every such term goes to the search stage too.
C6_BypassShortOrNumberLike ==
    /\ C6_ShortOrNumericPasses
    /\ (handler = "WN" /\ cleanedQuery # Null /\ TreatedAsNumeric(cleanedQuery)) =>
           /\ NumericLiteralShape(cleanedQuery)
           /\ ~ isLikelyNonMedical(cleanedQuery)
           /\ WentToSearch(cleanedQuery)
    /\ (handler = "WN" /\ cleanedQuery # Null /\ Len(cleanedQuery) >= 3
            /\ PurelyNumeric(cleanedQuery) /\ AllIn(cleanedQuery, Digits)) =>
           TreatedAsNumeric(cleanedQuery)

C6_Witness ==
    /\ handler = "WN"
    /\ cleanedQuery # Null
    /\ TreatedAsNumeric(cleanedQuery)
    /\ ~ PurelyNumeric(cleanedQuery)
    /\ WentToSearch(cleanedQuery)

\* The ways in which t starts with a filler phrase followed by whitespace:
\* the phrase and the number of whitespace characters after it
FillerPrefixes(t) ==
    {m \in (1..Len(FillerPhrases)) \X (1..Len(t)) :
        LET n == Len(FillerPhrases[m[1]])
        IN  /\ n + m[2] <= Len(t)
            /\ ToLowerCase(SubSeq(t, 1, n)) = FillerPhrases[m[1]]
            /\ \A j \in (n + 1)..(n + m[2]) : IsSpace(t[j])
            /\ (n + m[2] = Len(t) \/ ~ IsSpace(t[n + m[2] + 1]))}

\* C7: cleanMedicalPrompt returns the trimmed input without its leading
\* filler phrase and the whitespace after it when the trimmed input starts
\* with a listed phrase followed by whitespace, whatever the rest starts
\* with, and returns the trimmed input when it does not; the Netlify
\* Wikipedia handler searches with that term.
C7_StripsOneFillerPhrase ==
    (handler = "WN" /\ pc \in {"start", "WN_search"} /\ req.body = "object" /\ req.prompt # Null) =>
        LET t == Trim(req.prompt)
            out == cleanMedicalPrompt(req.prompt)
        IN  /\ IF FillerPrefixes(t) = {}
               THEN out = t
               ELSE \A m \in FillerPrefixes(t) :
                        out = Drop(t, Len(FillerPhrases[m[1]]) + m[2])
            /\ pc = "WN_search" => cleanedQuery = out /\ LastCall.arg = out

C7_Witness ==
    /\ handler = "WN"
    /\ cleanedQuery = <<"w","h","a","t"," ","i","s"," ","f","l","u">>
    /\ req.prompt = <<"w","h","a","t"," ","i","s"," ","w","h","a","t"," ","i","s"," ","f","l","u">>
    /\ WentToSearch(cleanedQuery)

\* The text before the first line break of s
BeforeLineBreak(s) ==
    IF \E i \in 1..Len(s) : s[i] = "\n"
    THEN SubSeq(s, 1, (CHOOSE i \in 1..Len(s) :
                          s[i] = "\n" /\ \A j \in 1..(i - 1) : s[j] # "\n") - 1)
    ELSE s

\* C8, as claimed: in both Wikipedia handlers an extract that contains
\* "may refer to:" gives the disambiguation notice as the summary.
C8_MarkerGivesNotice ==
    (IsWikipediaHandler /\ Done /\ ExtractObtained
        /\ Includes(LastCall.result.text, DisambiguationMarker)) =>
            /\ Len(responses) = 1
            /\ SuccessShaped(responses[1])
            /\ responses[1].args[2] = DisambiguationNotice

\* C8, amended: in the Vercel handler the summary is the disambiguation
\* notice whenever the first line of the extract contains "may refer to:",
\* and the first line itself otherwise, also when a later line contains the
\* marker; the Netlify handler has no disambiguation handling, its summary
\* is a line of the extract.
C8_MarkerInFirstLineGivesNotice ==
    /\ (handler = "WV" /\ Done /\ ExtractObtained) =>
           /\ Len(responses) = 1
           /\ SuccessShaped(responses[1])
           /\ responses[1].args[2] =
                  IF Includes(BeforeLineBreak(LastCall.result.text), DisambiguationMarker)
                  THEN DisambiguationNotice
                  ELSE BeforeLineBreak(LastCall.result.text)
    /\ (handler = "WN" /\ Done /\ ExtractObtained /\ Len(responses) = 1
            /\ SuccessShaped(responses[1])) =>
           /\ responses[1].args[2] # DisambiguationNotice
           /\ Includes(LastCall.result.text, responses[1].args[2])

C8_Witness ==
    /\ handler = "WV"
    /\ Done
    /\ ExtractObtained
    /\ Includes(LastCall.result.text, DisambiguationMarker)
    /\ Len(responses) = 1
    /\ responses[1].args[2] = DisambiguationNotice

\* C9: every invocation of each of the four handlers that has ended has
\* produced exactly one response, and no exception has left the handler.
C9_EveryInvocationResponds ==
    Done => Len(responses) = 1 /\ ~ escaped

\* The search returned the name of the site's root page
IsRootTitle(r) == r.kind = "title" /\ ToLowerCase(r.text) = <<"w","i","k","i","p","e","d","i","a">>

\* C10, as claimed: in both Wikipedia handlers a search that returns the
\* title "Wikipedia", in any case, ends the request as NotFound without an
\* extract fetch.
C10_RootTitleIsNotFound ==
    IsWikipediaHandler =>
        \A i \in 1..Len(calls) :
            (calls[i].kind = "search" /\ IsRootTitle(calls[i].result)) =>
                /\ i = Len(calls)
                /\ Done
                /\ Reported("NotFound")

\* C10, amended: in the Netlify handler a search that returns the title
\* "Wikipedia", in any case, ends the request with the not-found message and
\* without an extract fetch; the Vercel handler has no such test and fetches
\* the extract of that title.
C10_RootTitleIsNotFoundInNetlify ==
    \A i \in 1..Len(calls) :
        (IsWikipediaHandler /\ calls[i].kind = "search" /\ IsRootTitle(calls[i].result)) =>
            IF handler = "WN"
            THEN /\ i = Len(calls)
                 /\ Done
                 /\ responses = <<Response(200, "text", "NotFound", <<req.prompt>>)>>
            ELSE /\ Len(calls) = i + 1
                 /\ calls[i + 1].kind = "extract"
                 /\ calls[i + 1].arg = calls[i].result.text

C10_Witness ==
    /\ handler = "WN"
    /\ Len(calls) = 1
    /\ calls[1].result = [kind |-> "title", text |-> <<"W","i","k","i","p","e","d","i","a">>]
    /\ Done
    /\ Reported("NotFound")


\* The classifying handler has ended with one of its five 200 outcomes
ClassifiedOutcome ==
    /\ handler = "WN"
    /\ Done
    /\ Len(responses) = 1
    /\ responses[1].status = 200

\* The response text is built with a value that contains t
Embeds(r, t) == \E i \in 1..Len(r.args) : Includes(r.args[i], t)

\* C11, as claimed: in no outcome of the classifying handler (greeting,
\* out-of-scope, not-found, extraction-failure, success) is the normalized
\* term put into the response text.
C11_TermNeverShown ==
    (ClassifiedOutcome /\ Truthy(cleanedQuery)) => ~ Embeds(responses[1], cleanedQuery)

\* C11, amended: the normalized term is the search argument and is also
\* shown to the user in the out-of-scope message, which quotes it; the
\* greeting message is fixed text and is given before the term is computed;
\* the not-found message quotes the raw prompt, not the normalized term (the
\* term is in it only as the part of the prompt it was taken from); the
\* extraction-failure and success messages are built only from the title and
\* the extract that the remote calls returned.
C11_TermShownOnlyInOutOfScope ==
    ClassifiedOutcome =>
        LET r == responses[1]
        IN  /\ r.msg \in {"Greeting", "OutOfScope", "NotFound", "ExtractFailed", "Summary"}
            /\ r.msg = "Greeting" =>
                   /\ cleanedQuery = Null
                   /\ r.args = <<>>
                   /\ calls = <<>>
            /\ r.msg = "OutOfScope" =>
                   /\ r.args = <<cleanedQuery>>
                   /\ calls = <<>>
                   /\ Includes(WNText(r), <<"\"">> \o cleanedQuery \o <<"\"">>)
            /\ r.msg = "NotFound" =>
                   /\ r.args = <<req.prompt>>
                   /\ Len(calls) = 1
                   /\ calls[1].arg = cleanedQuery
                   /\ Includes(WNText(r), <<"\"">> \o req.prompt \o <<"\"">>)
            /\ r.msg \in {"ExtractFailed", "Summary"} =>
                   /\ Len(calls) = 2
                   /\ calls[1].arg = cleanedQuery
                   /\ r.args[1] = calls[1].result.text
            /\ r.msg = "ExtractFailed" => Len(r.args) = 1
            /\ r.msg = "Summary" =>
                   /\ Len(r.args) = 3
                   /\ Includes(calls[2].result.text, r.args[2])
                   /\ r.args[3] = WikiArticlePrefix \o encodeURIComponent(calls[1].result.text)

C11_Witness ==
    /\ ClassifiedOutcome
    /\ Reported("NotFound")
    /\ Truthy(cleanedQuery)
    /\ cleanedQuery # req.prompt
    /\ responses[1].args = <<req.prompt>>

=============================================================================
